---- MODULE Spec2Model ----
(***************************************************************************)
(* ELL sparse matrix times dense matrix on the OpenMP executor.            *)
(*                                                                         *)
(* The repository holds two revisions of the kernel file:                  *)
(*   "omp" : src/omp/matrix/ell_kernels.cpp                                *)
(*   "p1"  : src/unnamed/part_001                                          *)
(* Both are modelled; the variable `variant` says which one is running.    *)
(*                                                                         *)
(* One behaviour is one call of spmv or advanced_spmv: the dispatcher, the *)
(* parallel row loop of the selected kernel (its iterations taken by the   *)
(* worker threads in any order, their stores interleaved), the implicit    *)
(* barrier, and the serial row tail.  A second output buffer cAlt is       *)
(* computed by the same schedule from valuesAlt, which differs from        *)
(* a.values only in padding slots.                                         *)
(*                                                                         *)
(* src/unnamed/part_000 (the pointer utilities temporary_clone, its        *)
(* deleters, and the as<T> casts) is modelled by the variables `utils`     *)
(* and the specification SpecUtils: one behaviour is one temporary_clone   *)
(* from construction to the end of its scope, or one call of as<T> and the *)
(* end of the caller's scope.                                              *)
(***************************************************************************)
EXTENDS Integers, FiniteSets, Sequences, TLC

\* ------------------------------------------------------------------ bounds
MaxRows == 9
MaxRhs == 8
MaxCells == 10
MaxStored == 2
NumThreads == 2
SizeTypeBits == 16
MaxUses == 2

\* ------------------------------------------------------- program constants
invalid_index == 0 - 1
vect_size_small == 4
vect_size_vect == 8
block_size == 4

\* arithmetic_type is an IEEE type: NaN is a value that absorbs + and *.
NaN == 0 - 1000000

Variants == {"omp", "p1"}
Ops == {"spmv", "advanced_spmv"}
Threads == 1..NumThreads

\* (InputValueType, MatrixValueType, OutputValueType, IndexType)
TypeTuples ==
    { [IV |-> "double", MV |-> "double", OV |-> "double", IT |-> "int"],
      [IV |-> "double", MV |-> "double", OV |-> "double", IT |-> "long"],
      [IV |-> "float", MV |-> "double", OV |-> "double", IT |-> "int"] }

\* Number of columns of A (= rows of B), extra row stride of A and B,
\* the two padding values of the two runs, what an out-of-bounds read finds.
NumColsOf == {2}
StridePads == {0, 1}
PadValues == [run |-> 0, alt |-> 5]
JunkValues == {1, NaN}
PadPatterns == {"none", "first", "last", "all"}
\* Two more families of A: the identity (N = M, K = 1, col_idxs[r] = r,
\* values[r] = 1) and a matrix whose first slot holds the column index N,
\* which is no column of A.
Patterns == PadPatterns \cup {"identity", "outofrange"}

VARIABLES
    variant,    \* which revision of the file runs
    op,         \* "spmv" or "advanced_spmv"
    types,      \* the template type tuple of the call
    a,          \* matrix::Ell: size0, size1, num_stored_elements_per_row, stride, values, col_idxs
    valuesAlt,  \* a.values with other numbers in the padding slots
    b,          \* matrix::Dense: size0, size1, stride, values (raw buffer)
    alpha, beta,\* 1x1 Dense scalars
    junk,       \* what a read outside a buffer returns
    c_prev,     \* C on entry
    c, cAlt,    \* C of the run on a.values and of the run on valuesAlt
    cOther,     \* C of a run on a.values that found other numbers in C on entry
    pc,         \* "entry", "parallel", "tail", "done", "crashed"
    kernel,     \* [name, tmpl] of the kernel the dispatcher called, name "none" before
    calls,      \* number of kernel invocations made by the dispatcher
    assert_ok,  \* FALSE once a GKO_ASSERT of a kernel failed
    scalars_read,\* TRUE once alpha->at(0,0) / beta->at(0,0) were read
    todo,       \* iterations of the parallel loop not yet taken
    wrapped,    \* the unsigned loop bound wrapped: iterations exist beyond the modelled ones
    thr,        \* per thread: the iteration in progress
    tail_row,   \* next row of the serial tail
    writes,     \* per cell of C: how many stores it received
    writers,    \* per cell of C: the threads that stored to it
    tail_rows,  \* rows processed by the serial tail
    block_rows, \* rows processed by the parallel row-block loop
    invalid_reads, \* kernel paths that read B through a column index of -1
    ub,         \* TRUE once an access fell outside a buffer
    outside_stores, \* the (row, column) pairs stored to that are no cell of C
    utility,    \* which utility of utils.hpp the behaviour exercises ("none" in Spec)
    upc,        \* "call", "held", "destroyed", "returned", "thrown", "crashed", "end"
    ptr,        \* temporary_clone's argument object: executor, data, is_const, deleted, copied_from
    exec,       \* temporary_clone's argument executor
    handle_,    \* temporary_clone::handle_: [get, deleter]
    the_clone,  \* the object made by clone(exec, ptr): created, executor, data, deleted
    events,     \* the calls clone / copy_from / delete in the order they were made
    uses,       \* operations made through get() / operator->
    obj,        \* as<T>'s argument pointer: [pointee (dynamic type or "nullptr"), holds]
    T,          \* as<T>'s target type
    ret,        \* the pointer as<T> returned: "nullptr" or "object"
    thrown,     \* the exception as<T> left with: "none", "NotSupported", "bad_typeid"
    use_count,  \* number of shared_ptr / unique_ptr owners of as<T>'s object
    deleted     \* how many times as<T>'s object was deleted

inputs == <<variant, op, types, a, valuesAlt, b, alpha, beta, junk, c_prev>>
run == <<c, cAlt, cOther, pc, kernel, calls, assert_ok, scalars_read, todo, wrapped,
         thr, tail_row, writes, writers, tail_rows, block_rows, invalid_reads, ub,
         outside_stores>>
utils == <<utility, upc, ptr, exec, handle_, the_clone, events, uses,
           obj, T, ret, thrown, use_count, deleted>>
vars == <<inputs, run, utils>>

\* ------------------------------------------------------------- arithmetic
add(x, y) == IF x = NaN \/ y = NaN THEN NaN ELSE x + y
mul(x, y) == IF x = NaN \/ y = NaN THEN NaN ELSE x * y

SizeTypeMod == 2 ^ SizeTypeBits
\* size_type subtraction (unsigned, wraps)
size_sub(x, y) == (x - y) % SizeTypeMod

M == a.size0
K == a.num_stored_elements_per_row
stride == a.stride
num_rhs == b.size1
Cells == (0..(M - 1)) \X (0..(num_rhs - 1))

\* ----------------------------------------------------------------- inputs
IsPadding(pat, m, k, r, i) ==
    \/ r >= m
    \/ pat = "all"
    \/ pat = "first" /\ r = 0 /\ i = 0
    \/ pat = "last" /\ r = m - 1 /\ i = k - 1

EllMatrix(m, n, k, s, pat, pad) ==
    [ size0 |-> m, size1 |-> n, num_stored_elements_per_row |-> k, stride |-> s,
      values |-> [o \in 0..(s * k - 1) |->
                    IF IsPadding(pat, m, k, o % s, o \div s) THEN pad
                    ELSE IF pat = "identity" THEN 1
                    ELSE 1 + (o % 2)],
      col_idxs |-> [o \in 0..(s * k - 1) |->
                    IF IsPadding(pat, m, k, o % s, o \div s) THEN invalid_index
                    ELSE IF pat = "identity" THEN o % s
                    ELSE IF pat = "outofrange" /\ o = 0 THEN n
                    ELSE ((o % s) + (o \div s)) % n] ]

DenseB(n, r, s) ==
    [ size0 |-> n, size1 |-> r, stride |-> s,
      values |-> [o \in 0..(n * s - 1) |-> 1 + o] ]

\* another content of C on entry, different in every cell
C_prev_other(cp) == [cell \in DOMAIN cp |-> cp[cell] + 4]

C_prev(m, r) == [cell \in (0..(m - 1)) \X (0..(r - 1)) |-> 1 + ((cell[1] + cell[2]) % 2)]

Shapes == {s \in (0..MaxRows) \X (0..MaxRhs) : s[1] * s[2] <= MaxCells}

IdleThread == [phase |-> "idle", path |-> "none", first_row |-> 0, nrows |-> 0,
               rhs_base |-> 0, width |-> 0, wr |-> 0,
               partial_sum |-> <<>>, partial_sumAlt |-> <<>>]

\* the state of a kernel call before its first step
InitRun ==
    /\ c = c_prev
    /\ cAlt = c_prev
    /\ cOther = C_prev_other(c_prev)
    /\ pc = "entry"
    /\ kernel = [name |-> "none", tmpl |-> 0]
    /\ calls = 0
    /\ assert_ok = TRUE
    /\ scalars_read = FALSE
    /\ todo = {}
    /\ wrapped = FALSE
    /\ thr = [t \in Threads |-> IdleThread]
    /\ tail_row = 0
    /\ writes = [cell \in DOMAIN c_prev |-> 0]
    /\ writers = [cell \in DOMAIN c_prev |-> {}]
    /\ tail_rows = {}
    /\ block_rows = {}
    /\ invalid_reads = {}
    /\ ub = FALSE
    /\ outside_stores = {}

\* no utility of utils.hpp is in use
NoObject == [executor |-> "none", data |-> 0, is_const |-> FALSE, deleted |-> 0, copied_from |-> 0]
NoClone == [created |-> 0, executor |-> "none", data |-> 0, deleted |-> 0]
NoHandle == [get |-> "nullptr", deleter |-> "none"]
NoPointer == [pointee |-> "nullptr", holds |-> FALSE]

InitUtilsIdle ==
    /\ utility = "none"
    /\ upc = "end"
    /\ ptr = NoObject
    /\ exec = "none"
    /\ handle_ = NoHandle
    /\ the_clone = NoClone
    /\ events = <<>>
    /\ uses = 0
    /\ obj = NoPointer
    /\ T = "none"
    /\ ret = "nullptr"
    /\ thrown = "none"
    /\ use_count = 0
    /\ deleted = 0

Init ==
    /\ variant \in Variants
    /\ op \in Ops
    /\ types \in (IF op = "spmv" THEN TypeTuples ELSE {ty \in TypeTuples : ty.IV = "double" /\ ty.IT = "int"})
    /\ \E sh \in Shapes, n \in NumColsOf, k \in 0..MaxStored, sp \in StridePads,
          bp \in StridePads, pat \in Patterns :
          /\ (k = 0 \/ sh[1] = 0) => pat = "none"
          /\ (k < 2) => sp = 0
          /\ (sh[2] = 0) => bp = 0
          /\ (pat = "identity") => k = 1
          /\ LET nn == IF pat = "identity" THEN sh[1] ELSE n
             IN  /\ a = EllMatrix(sh[1], nn, k, sh[1] + sp, pat, PadValues.run)
                 /\ valuesAlt = EllMatrix(sh[1], nn, k, sh[1] + sp, pat, PadValues.alt).values
                 /\ b = DenseB(nn, sh[2], sh[2] + bp)
          /\ c_prev = C_prev(sh[1], sh[2])
          /\ junk \in (IF pat = "none" THEN {1} ELSE JunkValues)
    /\ alpha = 2
    /\ beta = 3
    /\ InitRun
    /\ InitUtilsIdle

\* ------------------------------------------------------------ accessors
\* a_vals(i): values[i]; a read outside the array finds junk
a_vals(vals, off) == IF off \in DOMAIN vals THEN vals[off] ELSE junk
\* raw read of B's buffer; a read outside the buffer finds junk
b_raw(off) == IF off \in DOMAIN b.values THEN b.values[off] ELSE junk
\* reduced_row_major<2>: b_vals(r, j) is raw offset r * stride + j
b_offset(col, j) == col * b.stride + j

\* What one (value, col) slot does to B on each kernel path:
\*   issued : a load from B is issued,  off : its raw offset,
\*   fma    : the product is added to the accumulator (B's lane is 0 when
\*            no load was issued).
small_rhs_load_omp(col, j) == [issued |-> TRUE, off |-> b_offset(col, j), fma |-> TRUE]
small_rhs_load_p1(col, j) ==
    [issued |-> col # invalid_index, off |-> b_offset(col, j), fma |-> col # invalid_index]
vect_gather_omp(col, j) == [issued |-> TRUE, off |-> col, fma |-> TRUE]
vect_gather_p1(col, j) == [issued |-> col # invalid_index, off |-> col, fma |-> TRUE]
vect_tail_load(col, j) == [issued |-> TRUE, off |-> col, fma |-> TRUE]
blocked_load(col, j) ==
    [issued |-> col # invalid_index, off |-> b_offset(col, j), fma |-> col # invalid_index]

load_b(path, col, j) ==
    CASE path \in {"small_rhs_block", "small_rhs_tail"} ->
            IF variant = "omp" THEN small_rhs_load_omp(col, j) ELSE small_rhs_load_p1(col, j)
      [] path = "vect_block" ->
            IF variant = "omp" THEN vect_gather_omp(col, j) ELSE vect_gather_p1(col, j)
      [] path = "vect_tail" -> vect_tail_load(col, j)
      [] OTHER -> blocked_load(col, j)

\* partial_sum += val * b(col, j)
accumulate(path, val, col, j, acc) ==
    LET ld == load_b(path, col, j)
    IN  IF ld.fma THEN add(acc, mul(val, IF ld.issued THEN b_raw(ld.off) ELSE 0)) ELSE acc

\* for (i = 0; i < num_stored_elements_per_row; i++)
RECURSIVE inner_loop(_, _, _, _, _, _)
inner_loop(path, vals, row, j, i, acc) ==
    IF i >= K THEN acc
    ELSE inner_loop(path, vals, row, j, i + 1,
                    accumulate(path, a_vals(vals, row + i * stride),
                               a.col_idxs[row + i * stride], j, acc))

\* The accumulators of one unit of work: rows first..first+nrows-1, columns
\* base..base+width-1, slot next * width + j, each zero-filled and then
\* summed over i.  A row outside the matrix reads outside the arrays.
unit_sums_mut(path, vals, first, nrows, base, width) ==
    [idx \in 0..(nrows * width - 1) |->
        LET row == first + (idx \div width)
        IN  IF row < M THEN inner_loop(path, vals, row, base + (idx % width), 0, 1 + row)
            ELSE junk]

unit_sums(path, vals, first, nrows, base, width) ==
    [idx \in 0..(nrows * width - 1) |->
        LET row == first + (idx \div width)
        IN  IF row < M THEN inner_loop(path, vals, row, base + (idx % width), 0, 0)
            ELSE junk]

\* the loads from B the unit issues
unit_loads(path, first, nrows, base, width) ==
    { [col |-> a.col_idxs[row + i * stride],
       ld |-> load_b(path, a.col_idxs[row + i * stride], j)] :
        row \in {r \in first..(first + nrows - 1) : r < M},
        i \in 0..(K - 1),
        j \in base..(base + width - 1) }

unit_reads_invalid(path, first, nrows, base, width) ==
    \E x \in unit_loads(path, first, nrows, base, width) :
        x.ld.issued /\ x.col = invalid_index

unit_reads_outside(path, first, nrows, base, width) ==
    \/ \E x \in unit_loads(path, first, nrows, base, width) :
          x.ld.issued /\ x.ld.off \notin DOMAIN b.values
    \/ \E row \in first..(first + nrows - 1), i \in 0..(K - 1) :
          (row + i * stride) \notin DOMAIN a.values

\* ---------------------------------------------------------- output functor
\* a functor that adds to what C holds
out_spmv_mut(cc, r, j, value) == add(value, cc[<<r, j>>])
\* spmv: out = [](auto, auto, auto value) { return value; }
out_spmv(cc, r, j, value) == value
\* advanced_spmv: alpha_val * value + beta_val * c->at(i, j)
out_advanced(cc, r, j, value) == add(mul(alpha, value), mul(beta, cc[<<r, j>>]))
out(cc, r, j, value) ==
    IF op = "spmv" THEN out_spmv(cc, r, j, value) ELSE out_advanced(cc, r, j, value)

\* --------------------------------------------------------------- dispatch
is_gated_mut(ty) == ty.IV = "double" /\ ty.MV = "double" /\ ty.OV = "double"
is_gated(ty) ==
       ty.IV = "double" /\ ty.MV = "double" /\ ty.OV = "double" /\ ty.IT = "int"

\* if (num_rhs <= 0) { return; }
returns_early_mut(n) == n < 0
returns_early(n) == n <= 0

spmv_dispatch_mut(n, ty) ==
    IF n = 1 THEN [name |-> "spmv_small_rhs", tmpl |-> 1]
    ELSE IF n = 2 THEN [name |-> "spmv_small_rhs", tmpl |-> 2]
    ELSE IF n = 3 THEN [name |-> "spmv_small_rhs", tmpl |-> 3]
    ELSE [name |-> "spmv_blocked", tmpl |-> block_size]

spmv_dispatch(n, ty) ==
    IF n = 1 THEN
        IF is_gated(ty) THEN [name |-> "spmv_small_rhs_vect", tmpl |-> 1]
        ELSE [name |-> "spmv_small_rhs", tmpl |-> 1]
    ELSE IF n = 2 THEN [name |-> "spmv_small_rhs", tmpl |-> 2]
    ELSE IF n = 3 THEN [name |-> "spmv_small_rhs", tmpl |-> 3]
    ELSE IF n = 4 THEN [name |-> "spmv_small_rhs", tmpl |-> 4]
    ELSE [name |-> "spmv_blocked", tmpl |-> block_size]

advanced_spmv_dispatch(n, ty) ==
    IF n = 1 THEN [name |-> "spmv_small_rhs", tmpl |-> 1]
    ELSE IF n = 2 THEN [name |-> "spmv_small_rhs", tmpl |-> 2]
    ELSE IF n = 3 THEN [name |-> "spmv_small_rhs", tmpl |-> 3]
    ELSE IF n = 4 THEN [name |-> "spmv_small_rhs", tmpl |-> 4]
    ELSE [name |-> "spmv_blocked", tmpl |-> block_size]

\* GKO_ASSERT at kernel entry
kernel_assert(k) ==
    IF k.name = "spmv_blocked" THEN num_rhs > k.tmpl ELSE num_rhs = k.tmpl

vect_size(k) ==
    IF k.name = "spmv_small_rhs" THEN vect_size_small
    ELSE IF k.name = "spmv_small_rhs_vect" THEN vect_size_vect
    ELSE 1

\* upper bound of the parallel loop over first_row
loop_bound_omp(rows, v) == size_sub(rows, v - 1)
max_row_vectorized(rows, v) == IF rows < v THEN 0 ELSE rows - (v - 1)
loop_bound(k) ==
    IF k.name = "spmv_blocked" THEN M
    ELSE IF variant = "omp" THEN loop_bound_omp(M, vect_size(k))
    ELSE max_row_vectorized(M, vect_size(k))

\* first_row = 0, v, 2v, ... < bound; iterations starting beyond row M are
\* not followed (they lie wholly outside every buffer)
loop_iterations(v, bound) == {f \in 0..M : f % v = 0 /\ f < bound}

\* rest / last of the serial tail
tail_rest(v) == M % v
tail_last_mut(v) == M \div v
tail_last(v) == v * (M \div v)

Enter(k, readsScalars) ==
    /\ kernel' = k
    /\ calls' = calls + 1
    /\ scalars_read' = readsScalars
    /\ assert_ok' = kernel_assert(k)
    /\ IF kernel_assert(k)
       THEN /\ pc' = "parallel"
            /\ todo' = loop_iterations(vect_size(k), loop_bound(k))
            /\ wrapped' = (loop_bound(k) > M)
       ELSE /\ pc' = "crashed"
            /\ UNCHANGED <<todo, wrapped>>
    /\ UNCHANGED <<utils, outside_stores, inputs, c, cAlt, cOther, thr, tail_row, writes, writers, tail_rows,
                   block_rows, invalid_reads, ub>>

spmv ==
    /\ pc = "entry"
    /\ op = "spmv"
    /\ IF returns_early(num_rhs)
       THEN /\ pc' = "done"
            /\ UNCHANGED <<utils, outside_stores, inputs, c, cAlt, cOther, kernel, calls, assert_ok, scalars_read, todo,
                           wrapped, thr, tail_row, writes, writers, tail_rows,
                           block_rows, invalid_reads, ub>>
       ELSE Enter(spmv_dispatch(num_rhs, types), FALSE)

advanced_spmv ==
    /\ pc = "entry"
    /\ op = "advanced_spmv"
    /\ IF returns_early(num_rhs)
       THEN /\ pc' = "done"
            /\ UNCHANGED <<utils, outside_stores, inputs, c, cAlt, cOther, kernel, calls, assert_ok, scalars_read, todo,
                           wrapped, thr, tail_row, writes, writers, tail_rows,
                           block_rows, invalid_reads, ub>>
       ELSE Enter(advanced_spmv_dispatch(num_rhs, types), TRUE)

\* ---------------------------------------------------------------- kernels
Running == pc \in {"parallel", "tail"}

\* thread t zero-fills its accumulators and runs the inner loop of one unit
start_unit(t, path, first, nrows, base, width) ==
    /\ thr' = [thr EXCEPT ![t] =
                 [phase |-> IF nrows * width = 0 THEN "idle" ELSE "store",
                  path |-> path, first_row |-> first, nrows |-> nrows,
                  rhs_base |-> base, width |-> width, wr |-> 0,
                  partial_sum |-> unit_sums(path, a.values, first, nrows, base, width),
                  partial_sumAlt |-> unit_sums(path, valuesAlt, first, nrows, base, width)]]
    /\ invalid_reads' = IF unit_reads_invalid(path, first, nrows, base, width)
                        THEN invalid_reads \cup {path} ELSE invalid_reads
    /\ ub' = (ub \/ unit_reads_outside(path, first, nrows, base, width))

\* spmv_small_rhs: one iteration of the parallel loop over row blocks
small_rhs_block(t) ==
    /\ pc = "parallel"
    /\ kernel.name = "spmv_small_rhs"
    /\ thr[t].phase = "idle"
    /\ \E f \in todo :
          /\ todo' = todo \ {f}
          /\ start_unit(t, "small_rhs_block", f, vect_size_small, 0, kernel.tmpl)
          /\ block_rows' = block_rows \cup (f..(f + vect_size_small - 1))
    /\ UNCHANGED <<utils, outside_stores, inputs, c, cAlt, cOther, pc, kernel, calls, assert_ok, scalars_read, wrapped,
                   tail_row, writes, writers, tail_rows>>

\* spmv_small_rhs_vect: one iteration of the parallel loop over 8-row blocks
vect_block(t) ==
    /\ pc = "parallel"
    /\ kernel.name = "spmv_small_rhs_vect"
    /\ thr[t].phase = "idle"
    /\ \E f \in todo :
          /\ todo' = todo \ {f}
          /\ start_unit(t, "vect_block", f, vect_size_vect, 0, 1)
          /\ block_rows' = block_rows \cup (f..(f + vect_size_vect - 1))
    /\ UNCHANGED <<utils, outside_stores, inputs, c, cAlt, cOther, pc, kernel, calls, assert_ok, scalars_read, wrapped,
                   tail_row, writes, writers, tail_rows>>

\* spmv_blocked: one iteration of the parallel loop over rows
rounded_rhs_mut == num_rhs
rounded_rhs == (num_rhs \div kernel.tmpl) * kernel.tmpl

blocked_row(t) ==
    /\ pc = "parallel"
    /\ kernel.name = "spmv_blocked"
    /\ thr[t].phase = "idle"
    /\ \E f \in todo :
          /\ todo' = todo \ {f}
          /\ thr' = [thr EXCEPT ![t] = [IdleThread EXCEPT !.phase = "rhs_loop",
                                                         !.first_row = f]]
    /\ UNCHANGED <<utils, outside_stores, inputs, c, cAlt, cOther, pc, kernel, calls, assert_ok, scalars_read, wrapped,
                   tail_row, writes, writers, tail_rows, block_rows, invalid_reads, ub>>

\* for (rhs_base = 0; rhs_base < rounded_rhs; rhs_base += block_size)
blocked_rhs_block(t) ==
    /\ pc = "parallel"
    /\ thr[t].phase = "rhs_loop"
    /\ thr[t].rhs_base < rounded_rhs
    /\ start_unit(t, "blocked_block", thr[t].first_row, 1, thr[t].rhs_base, kernel.tmpl)
    /\ UNCHANGED <<utils, outside_stores, inputs, c, cAlt, cOther, pc, kernel, calls, assert_ok, scalars_read, todo,
                   wrapped, tail_row, writes, writers, tail_rows, block_rows>>

\* the pass over columns [rounded_rhs, num_rhs)
blocked_rhs_tail(t) ==
    /\ pc = "parallel"
    /\ thr[t].phase = "rhs_loop"
    /\ thr[t].rhs_base >= rounded_rhs
    /\ start_unit(t, "blocked_tail", thr[t].first_row, 1, rounded_rhs,
                  num_rhs - rounded_rhs)
    /\ UNCHANGED <<utils, outside_stores, inputs, c, cAlt, cOther, pc, kernel, calls, assert_ok, scalars_read, todo,
                   wrapped, tail_row, writes, writers, tail_rows, block_rows>>

\* the functor a path passes its accumulator through before the store
path_out(path, cc, r, j, value) ==
    IF path \in {"vect_block", "vect_tail"} THEN value ELSE out(cc, r, j, value)

\* c->at(row, col) = out(row, col, partial_sum[..]) : one store
store(t) ==
    /\ Running
    /\ thr[t].phase = "store"
    /\ LET th == thr[t]
           r == th.first_row + (th.wr \div th.width)
           j == th.rhs_base + (th.wr % th.width)
           inside == <<r, j>> \in DOMAIN c
           last == th.wr + 1 = th.nrows * th.width
       IN  /\ c' = IF inside
                   THEN [c EXCEPT ![<<r, j>>] = path_out(th.path, c, r, j, th.partial_sum[th.wr])]
                   ELSE c
           /\ cAlt' = IF inside
                      THEN [cAlt EXCEPT ![<<r, j>>] =
                              path_out(th.path, cAlt, r, j, th.partial_sumAlt[th.wr])]
                      ELSE cAlt
           /\ cOther' = IF inside
                        THEN [cOther EXCEPT ![<<r, j>>] =
                                path_out(th.path, cOther, r, j, th.partial_sum[th.wr])]
                        ELSE cOther
           /\ writes' = IF inside THEN [writes EXCEPT ![<<r, j>>] = @ + 1] ELSE writes
           /\ writers' = IF inside THEN [writers EXCEPT ![<<r, j>>] = @ \cup {t}] ELSE writers
           /\ ub' = (ub \/ ~inside)
           /\ outside_stores' = IF inside THEN outside_stores
                                ELSE outside_stores \cup {<<r, j>>}
           /\ thr' = [thr EXCEPT ![t] =
                        IF ~last THEN [th EXCEPT !.wr = th.wr + 1]
                        ELSE IF th.path = "blocked_block"
                        THEN [th EXCEPT !.phase = "rhs_loop", !.wr = th.wr + 1,
                                        !.rhs_base = th.rhs_base + kernel.tmpl]
                        ELSE [th EXCEPT !.phase = "idle", !.wr = th.wr + 1]]
    /\ UNCHANGED <<utils, inputs, pc, kernel, calls, assert_ok, scalars_read, todo, wrapped,
                   tail_row, tail_rows, block_rows, invalid_reads>>

\* a parallel region that ends without waiting for the workers
barrier_mut ==
    /\ pc = "parallel"
    /\ todo = {}
    /\ ~wrapped
    /\ IF kernel.name # "spmv_blocked" /\ tail_rest(vect_size(kernel)) # 0
       THEN /\ pc' = "tail"
            /\ tail_row' = tail_last(vect_size(kernel))
       ELSE /\ pc' = "done"
            /\ UNCHANGED tail_row
    /\ UNCHANGED <<utils, outside_stores, inputs, c, cAlt, cOther, kernel, calls, assert_ok, scalars_read, todo, wrapped,
                   thr, writes, writers, tail_rows, block_rows, invalid_reads, ub>>

\* end of the parallel region (implicit barrier), then rest / last
barrier ==
    /\ pc = "parallel"
    /\ todo = {}
    /\ \A t \in Threads : thr[t].phase = "idle"
    /\ ~wrapped
    /\ IF kernel.name # "spmv_blocked" /\ tail_rest(vect_size(kernel)) # 0
       THEN /\ pc' = "tail"
            /\ tail_row' = tail_last(vect_size(kernel))
       ELSE /\ pc' = "done"
            /\ UNCHANGED tail_row
    /\ UNCHANGED <<utils, outside_stores, inputs, c, cAlt, cOther, kernel, calls, assert_ok, scalars_read, todo, wrapped,
                   thr, writes, writers, tail_rows, block_rows, invalid_reads, ub>>

\* for (row = last; row < a->get_size()[0]; row++) on the calling thread
tail_loop ==
    /\ pc = "tail"
    /\ thr[1].phase = "idle"
    /\ IF tail_row < M
       THEN /\ start_unit(1, IF kernel.name = "spmv_small_rhs_vect" THEN "vect_tail"
                             ELSE "small_rhs_tail",
                          tail_row, 1, 0, kernel.tmpl)
            /\ tail_row' = tail_row + 1
            /\ tail_rows' = tail_rows \cup {tail_row}
            /\ UNCHANGED pc
       ELSE /\ pc' = "done"
            /\ UNCHANGED <<thr, tail_row, tail_rows, invalid_reads, ub>>
    /\ UNCHANGED <<utils, outside_stores, inputs, c, cAlt, cOther, kernel, calls, assert_ok, scalars_read, todo, wrapped,
                   writes, writers, block_rows>>

\* after an access outside a buffer the process may die at any point
crash ==
    /\ Running
    /\ ub
    /\ pc' = "crashed"
    /\ UNCHANGED <<utils, outside_stores, inputs, c, cAlt, cOther, kernel, calls, assert_ok, scalars_read, todo, wrapped,
                   thr, tail_row, writes, writers, tail_rows, block_rows, invalid_reads, ub>>

Next ==
    \/ spmv
    \/ advanced_spmv
    \/ \E t \in Threads : small_rhs_block(t)
    \/ \E t \in Threads : vect_block(t)
    \/ \E t \in Threads : blocked_row(t)
    \/ \E t \in Threads : blocked_rhs_block(t)
    \/ \E t \in Threads : blocked_rhs_tail(t)
    \/ \E t \in Threads : store(t)
    \/ barrier
    \/ tail_loop
    \/ crash

Spec == Init /\ [][Next]_vars

\* ===================================================== utilities (utils.hpp)
Executors == {"omp", "reference", "cuda"}
DataValues == {1, 2}
Utilities == {"temporary_clone", "as_raw", "as_unique", "as_shared"}
\* a class hierarchy for dynamic_cast: Dense and Ell derive from LinOp
ClassNames == {"LinOp", "Dense", "Ell"}

\* an idle kernel call: the ELL variables of a behaviour of the utilities
InitNoCall ==
    /\ variant = "p1"
    /\ op = "spmv"
    /\ types = [IV |-> "double", MV |-> "double", OV |-> "double", IT |-> "int"]
    /\ a = EllMatrix(0, 0, 0, 0, "none", PadValues.run)
    /\ valuesAlt = a.values
    /\ b = DenseB(0, 0, 0)
    /\ c_prev = C_prev(0, 0)
    /\ junk = 1
    /\ alpha = 2
    /\ beta = 3
    /\ InitRun

InitUtils ==
    /\ InitNoCall
    /\ utility \in Utilities
    /\ upc = "call"
    /\ handle_ = NoHandle
    /\ the_clone = NoClone
    /\ events = <<>>
    /\ uses = 0
    /\ ret = "nullptr"
    /\ thrown = "none"
    /\ deleted = 0
    /\ IF utility = "temporary_clone"
       THEN /\ \E e \in Executors, d \in DataValues, k \in BOOLEAN :
                  ptr = [executor |-> e, data |-> d, is_const |-> k,
                         deleted |-> 0, copied_from |-> 0]
            /\ exec \in Executors
            /\ obj = NoPointer
            /\ T = "none"
            /\ use_count = 0
       ELSE /\ ptr = NoObject
            /\ exec = "none"
            /\ \E dyn \in ClassNames \cup {"nullptr"} :
                  /\ obj = [pointee |-> dyn, holds |-> dyn # "nullptr"]
                  /\ use_count = IF dyn # "nullptr" /\ utility # "as_raw" THEN 1 ELSE 0
            /\ T \in ClassNames

\* ptr->get_executor() == exec
same_executor_mut(p, e) == FALSE
same_executor(p, e) == p.executor = e

\* clone(exec, ptr): a new object on exec with the data of ptr
clone(e, p) == [created |-> 1, executor |-> e, data |-> p.data, deleted |-> 0]

\* The deleters, applied to the held object: st = [ptr, the_clone, events].
null_deleter(st) == st

copy_back_deleter_mut(st) ==
    [ ptr |-> [st.ptr EXCEPT !.data = st.the_clone.data, !.copied_from = @ + 1],
      the_clone |-> [st.the_clone EXCEPT !.deleted = @ + 1],
      events |-> st.events \o <<"delete", "copy_from">> ]

\* original_->copy_from(ptr); delete ptr;
copy_back_deleter(st) ==
    [ ptr |-> [st.ptr EXCEPT !.data = st.the_clone.data, !.copied_from = @ + 1],
      the_clone |-> [st.the_clone EXCEPT !.deleted = @ + 1],
      events |-> st.events \o <<"copy_from", "delete">> ]

\* copy_back_deleter<const T>: delete ptr;
copy_back_deleter_const(st) ==
    [ ptr |-> st.ptr,
      the_clone |-> [st.the_clone EXCEPT !.deleted = @ + 1],
      events |-> st.events \o <<"delete">> ]

UtilsAsUnchanged == UNCHANGED <<obj, T, ret, thrown, use_count, deleted>>
UtilsCloneUnchanged == UNCHANGED <<ptr, exec, handle_, the_clone, events, uses>>

\* temporary_clone(exec, ptr): the constructor
temporary_clone ==
    /\ utility = "temporary_clone"
    /\ upc = "call"
    /\ IF same_executor(ptr, exec)
       THEN /\ handle_' = [get |-> "ptr", deleter |-> "null_deleter"]
            /\ UNCHANGED <<the_clone, events>>
       ELSE /\ the_clone' = clone(exec, ptr)
            /\ events' = Append(events, "clone")
            /\ handle_' = [get |-> "clone",
                           deleter |-> IF ptr.is_const THEN "copy_back_deleter_const"
                                       ELSE "copy_back_deleter"]
    /\ upc' = "held"
    /\ UNCHANGED <<utility, ptr, exec, uses>>
    /\ UtilsAsUnchanged
    /\ UNCHANGED <<inputs, run>>

\* get() / operator->: the caller works on the object handle_ points to; a
\* non-const object may be written
get ==
    /\ utility = "temporary_clone"
    /\ upc = "held"
    /\ uses < MaxUses
    /\ uses' = uses + 1
    /\ IF ptr.is_const
       THEN UNCHANGED <<ptr, the_clone>>
       ELSE \E d \in DataValues :
              IF handle_.get = "ptr"
              THEN ptr' = [ptr EXCEPT !.data = d] /\ UNCHANGED the_clone
              ELSE the_clone' = [the_clone EXCEPT !.data = d] /\ UNCHANGED ptr
    /\ UNCHANGED <<utility, upc, exec, handle_, events>>
    /\ UtilsAsUnchanged
    /\ UNCHANGED <<inputs, run>>

\* end of the temporary_clone's scope: handle_ is destroyed and calls its
\* deleter on the pointer it holds
destroy ==
    /\ utility = "temporary_clone"
    /\ upc = "held"
    /\ LET st == [ptr |-> ptr, the_clone |-> the_clone, events |-> events]
           after == CASE handle_.deleter = "null_deleter" -> null_deleter(st)
                      [] handle_.deleter = "copy_back_deleter" -> copy_back_deleter(st)
                      [] OTHER -> copy_back_deleter_const(st)
       IN  /\ ptr' = after.ptr
           /\ the_clone' = after.the_clone
           /\ events' = after.events
    /\ handle_' = [handle_ EXCEPT !.get = "nullptr"]
    /\ upc' = "destroyed"
    /\ UNCHANGED <<utility, exec, uses>>
    /\ UtilsAsUnchanged
    /\ UNCHANGED <<inputs, run>>

\* dynamic_cast<T *>(p): non-null iff p points to an object whose dynamic
\* type is T or derives from it
dynamic_cast(t, dyn) == dyn # "nullptr" /\ (dyn = t \/ t = "LinOp")

\* obj.release()
release_mut(o) == o
release(o) == [o EXCEPT !.holds = FALSE]

\* as<T>(U *obj)
as_raw ==
    /\ utility = "as_raw"
    /\ upc = "call"
    /\ IF dynamic_cast(T, obj.pointee)
       THEN ret' = "object" /\ upc' = "returned" /\ UNCHANGED thrown
       ELSE /\ thrown' = IF obj.pointee = "nullptr" THEN "bad_typeid" ELSE "NotSupported"
            /\ upc' = "thrown"
            /\ UNCHANGED ret
    /\ UNCHANGED <<utility, obj, T, use_count, deleted>>
    /\ UtilsCloneUnchanged
    /\ UNCHANGED <<inputs, run>>

\* what evaluating typeid(*obj) for the exception does: for a smart pointer
\* that holds nullptr, operator* is undefined
typeid_outcomes(o) ==
    IF o.pointee = "nullptr" THEN {"bad_typeid", "crashed"} ELSE {"NotSupported"}

\* as<T>(std::unique_ptr<U> &&obj)
as_unique ==
    /\ utility = "as_unique"
    /\ upc = "call"
    /\ IF dynamic_cast(T, obj.pointee)
       THEN /\ obj' = release(obj)
            /\ ret' = "object"
            /\ use_count' = use_count - (IF obj'.holds THEN 0 ELSE 1) + 1
            /\ upc' = "returned"
            /\ UNCHANGED thrown
       ELSE /\ \E x \in typeid_outcomes(obj) :
                  IF x = "crashed" THEN upc' = "crashed" /\ UNCHANGED thrown
                  ELSE upc' = "thrown" /\ thrown' = x
            /\ UNCHANGED <<obj, ret, use_count>>
    /\ UNCHANGED <<utility, T, deleted>>
    /\ UtilsCloneUnchanged
    /\ UNCHANGED <<inputs, run>>

\* as<T>(std::shared_ptr<U> obj)
as_shared ==
    /\ utility = "as_shared"
    /\ upc = "call"
    /\ IF dynamic_cast(T, obj.pointee)
       THEN /\ ret' = "object"
            /\ use_count' = use_count + 1
            /\ upc' = "returned"
            /\ UNCHANGED thrown
       ELSE /\ \E x \in typeid_outcomes(obj) :
                  IF x = "crashed" THEN upc' = "crashed" /\ UNCHANGED thrown
                  ELSE upc' = "thrown" /\ thrown' = x
            /\ UNCHANGED <<ret, use_count>>
    /\ UNCHANGED <<utility, obj, T, deleted>>
    /\ UtilsCloneUnchanged
    /\ UNCHANGED <<inputs, run>>

\* the caller's scope ends: its smart pointers are destroyed, each owner
\* giving up the object, the last one deleting it; a raw pointer deletes
\* nothing
scope_exit ==
    /\ utility \in {"as_unique", "as_shared"}
    /\ upc \in {"returned", "thrown"}
    /\ deleted' = deleted + (IF utility = "as_unique" THEN use_count
                             ELSE IF use_count > 0 THEN 1 ELSE 0)
    /\ use_count' = 0
    /\ obj' = [obj EXCEPT !.holds = FALSE]
    /\ ret' = "nullptr"
    /\ upc' = "end"
    /\ UNCHANGED <<utility, T, thrown>>
    /\ UtilsCloneUnchanged
    /\ UNCHANGED <<inputs, run>>

NextUtils ==
    \/ temporary_clone
    \/ get
    \/ destroy
    \/ as_raw
    \/ as_unique
    \/ as_shared
    \/ scope_exit

SpecUtils == InitUtils /\ [][NextUtils]_vars

\* =================================================================== claims
\* The padding-masked row sum of the contract, in the order i = 0..K-1:
\* sum over the first n slots of row r with a valid column of values * B[col, j].
RECURSIVE masked_row_sum(_, _, _, _)
masked_row_sum(vals, r, j, n) ==
    IF n = 0 THEN 0
    ELSE LET o == r + (n - 1) * stride
             col == a.col_idxs[o]
         IN  add(masked_row_sum(vals, r, j, n - 1),
                 IF col # -1 THEN mul(vals[o], b.values[col * b.stride + j]) ELSE 0)

Returned == pc = "done" /\ num_rhs >= 1
\* the precondition on the column indices: each is -1 or a column of A
ColsInRange ==
    \A o \in DOMAIN a.col_idxs :
        a.col_idxs[o] = invalid_index \/ (0 <= a.col_idxs[o] /\ a.col_idxs[o] < a.size1)
HasPadding == \E o \in DOMAIN a.col_idxs : (o % stride) < M /\ a.col_idxs[o] = -1
NoValidEntry == \A o \in DOMAIN a.col_idxs : a.col_idxs[o] = -1

\* C1: after plain spmv returns with num_rhs >= 1, called with its
\* preconditions met, every C[r,j] is the padding-masked row sum of row r
\* against column j of B, on whichever kernel the dispatcher selected.
C1_PlainResult ==
    (Returned /\ ColsInRange /\ op = "spmv") =>
        \A cell \in Cells : c[cell] = masked_row_sum(a.values, cell[1], cell[2], K)

\* C2: after advanced_spmv returns with num_rhs >= 1, under every
\* interleaving, every C[r,j] is alpha * (masked row sum) + beta * C_prev[r,j].
C2_AdvancedResult ==
    (Returned /\ ColsInRange /\ op = "advanced_spmv") =>
        \A cell \in Cells :
            c[cell] = add(mul(alpha, masked_row_sum(a.values, cell[1], cell[2], K)),
                          mul(beta, c_prev[cell]))

\* C3: two runs whose inputs differ only in the values paired with a column
\* index of -1 end with the same C.
C3_PaddingIndependence == Returned => c = cAlt

\* C4: spmv_small_rhs masks in its block loop and in its tail: a slot with
\* column index -1 never makes it read B and never changes a partial sum.
C4_SmallRhsMasks ==
    /\ invalid_reads \cap {"small_rhs_block", "small_rhs_tail"} = {}
    /\ \A t \in Threads :
          (ColsInRange /\ thr[t].path \in {"small_rhs_block", "small_rhs_tail"}) =>
              \A idx \in DOMAIN thr[t].partial_sum :
                  (thr[t].first_row + (idx \div thr[t].width) < M) =>
                      thr[t].partial_sum[idx] =
                          masked_row_sum(a.values, thr[t].first_row + (idx \div thr[t].width),
                                         idx % thr[t].width, K)

\* C5: no cell of C is ever stored to twice or by two threads, the rows of
\* the parallel block loop and of the serial tail are disjoint, and when the
\* call returns every cell of C has been stored to exactly once.
C5_SingleWriter ==
    /\ \A cell \in Cells : writes[cell] <= 1 /\ Cardinality(writers[cell]) <= 1
    /\ block_rows \cap tail_rows = {}
    /\ Returned => \A cell \in Cells : writes[cell] = 1

C5_Witness ==
    /\ Returned /\ M >= 1
    /\ block_rows # {} /\ tail_rows # {}
    /\ \E c1, c2 \in Cells : writers[c1] = {1} /\ writers[c2] = {2}

\* C6: with num_rhs <= 0 no kernel is invoked, C is left unchanged and
\* alpha and beta are not read.
C6_ZeroRhs ==
    (num_rhs <= 0) =>
        /\ calls = 0 /\ kernel.name = "none"
        /\ c = c_prev
        /\ ~scalars_read
        /\ pc \in {"entry", "done"}

C6_Witness == pc = "done" /\ num_rhs = 0 /\ op = "advanced_spmv" /\ M >= 1

\* C7: for num_rhs >= 1 a call invokes exactly one kernel: a small-RHS kernel
\* (scalar or SIMD) with template argument num_rhs when num_rhs is 1..4, the
\* blocked kernel with block size 4 when num_rhs >= 5; the kernel's entry
\* assertion holds.
C7_DispatchByRhs ==
    /\ calls <= 1
    /\ (pc # "entry" /\ num_rhs >= 1) =>
          /\ calls = 1
          /\ assert_ok
          /\ (num_rhs \in 1..4) =>
                /\ kernel.name \in {"spmv_small_rhs", "spmv_small_rhs_vect"}
                /\ kernel.tmpl = num_rhs
          /\ (num_rhs >= 5) => kernel = [name |-> "spmv_blocked", tmpl |-> 4]

C7_Witness == pc = "done" /\ num_rhs = 4 /\ kernel.name = "spmv_small_rhs" /\ M >= 1

\* C8: the SIMD kernel is entered exactly for plain spmv with num_rhs = 1
\* and the type tuple (double, double, double, int32); every other call with
\* num_rhs = 1 enters the scalar kernel with template argument 1.
C8_SimdGating ==
    (pc # "entry" /\ num_rhs >= 1) =>
        /\ (kernel.name = "spmv_small_rhs_vect") <=>
              /\ op = "spmv" /\ num_rhs = 1
              /\ types = [IV |-> "double", MV |-> "double", OV |-> "double", IT |-> "int"]
        /\ (num_rhs = 1 /\ kernel.name # "spmv_small_rhs_vect") =>
              kernel = [name |-> "spmv_small_rhs", tmpl |-> 1]

C8_Witness ==
    /\ pc = "done" /\ M >= 1 /\ num_rhs = 1 /\ op = "spmv"
    /\ types.IT = "long" /\ kernel.name = "spmv_small_rhs"

\* C9: when M is smaller than the vector width the row-block loop runs no
\* iteration, its unsigned bound does not wrap, and the tail processes
\* exactly the rows [0, M).
C9_SmallM ==
    (kernel.name \in {"spmv_small_rhs", "spmv_small_rhs_vect"} /\ M < vect_size(kernel)) =>
        /\ ~wrapped
        /\ block_rows = {}
        /\ (pc = "done") => tail_rows = 0..(M - 1)

\* C10: when A has no valid entry the output functor is still applied to a
\* zero partial sum: C = 0 after spmv, C = beta * C_prev after advanced_spmv.
C10_EmptyMatrix ==
    (Returned /\ NoValidEntry) =>
        \A cell \in Cells :
            c[cell] = IF op = "spmv" THEN 0 ELSE mul(beta, c_prev[cell])

\* ---------------------------------------------------------------------------
\* C11: a call leaves the buffers of A (values, col_idxs), B, alpha and beta
\* as they were, and the only memory it stores to are the cells C[r, j] with
\* r in [0, M) and j in [0, num_rhs).
C11_InputsReadOnly == [][inputs' = inputs /\ outside_stores' = {}]_vars

\* The C a single thread leaves that runs every iteration by itself, in the
\* order of the loops: each cell is the functor applied once to the sum over
\* i = 0..K-1 of the path its row (and column) belongs to.
serial_path(r, j) ==
    IF kernel.name = "spmv_blocked"
    THEN (IF j < rounded_rhs THEN "blocked_block" ELSE "blocked_tail")
    ELSE IF r - (r % vect_size(kernel)) + vect_size(kernel) <= M
    THEN (IF kernel.name = "spmv_small_rhs_vect" THEN "vect_block" ELSE "small_rhs_block")
    ELSE (IF kernel.name = "spmv_small_rhs_vect" THEN "vect_tail" ELSE "small_rhs_tail")

serial_c ==
    [cell \in Cells |->
        path_out(serial_path(cell[1], cell[2]), c_prev, cell[1], cell[2],
                 inner_loop(serial_path(cell[1], cell[2]), a.values, cell[1], cell[2], 0, 0))]

\* C12: the C a call returns with is the same for every number of worker
\* threads, every assignment of iterations to threads and every interleaving
\* of their stores: it is the C of the serial execution.
C12_ThreadCountInvariance == Returned => c = serial_c

C12_Witness ==
    /\ Returned /\ op = "advanced_spmv" /\ K >= 1
    /\ \E c1, c2 \in Cells : c1[1] # c2[1] /\ writers[c1] = {1} /\ writers[c2] = {2}
    /\ tail_rows # {}

\* C13: a call whose column indices are not all in {-1} \cup [0, N) fails
\* with an assertion at entry: it is stopped before any cell of C is stored
\* to, and C is as it was.
C13_AllOrNothing ==
    (~ColsInRange /\ pc # "entry") =>
        /\ ~assert_ok /\ pc = "crashed"
        /\ \A cell \in Cells : writes[cell] = 0
        /\ c = c_prev

\* C14: every call returns: as long as it has not returned it can take a
\* further step, and (every step consuming an iteration, a store or a phase)
\* it ends in the state "done".
C14_Termination == pc = "done" \/ ENABLED Next

\* B widened to block_size + 1 columns (so that the blocked kernel accepts
\* it), its first num_rhs columns those of b.
b_padded ==
    [ size0 |-> b.size0, size1 |-> block_size + 1, stride |-> block_size + 1,
      values |-> [o \in 0..(b.size0 * (block_size + 1) - 1) |->
                    IF o % (block_size + 1) < num_rhs
                    THEN b.values[(o \div (block_size + 1)) * b.stride + (o % (block_size + 1))]
                    ELSE 1 + o] ]

\* spmv_blocked's sum for (row, j) over the slots i.. of the row, read from
\* the Dense matrix bb: a slot with col = invalid_index is skipped.
RECURSIVE spmv_blocked_on(_, _, _, _, _, _)
spmv_blocked_on(bb, vals, row, j, i, acc) ==
    IF i >= K THEN acc
    ELSE LET val == a_vals(vals, row + i * stride)
             col == a.col_idxs[row + i * stride]
             off == col * bb.stride + j
         IN  spmv_blocked_on(bb, vals, row, j, i + 1,
                 IF col # invalid_index
                 THEN add(acc, mul(val, IF off \in DOMAIN bb.values THEN bb.values[off]
                                        ELSE junk))
                 ELSE acc)

\* C15: for num_rhs in 1..4 the C that spmv_small_rhs<num_rhs> returns equals,
\* on the columns [0, num_rhs), the C of spmv_blocked<4> run on the same A
\* with B widened to 5 columns, padding slots included.
C15_SmallRhsRefinesBlocked ==
    (Returned /\ ColsInRange /\ kernel.name = "spmv_small_rhs") =>
        \A cell \in Cells :
            c[cell] = out(c_prev, cell[1], cell[2],
                          spmv_blocked_on(b_padded, a.values, cell[1], cell[2], 0, 0))

\* the loop of spmv_small_rhs that handles row r
small_rhs_path(r) ==
    IF r - (r % vect_size_small) + vect_size_small <= M
    THEN "small_rhs_block" ELSE "small_rhs_tail"

\* C16: for the gated type tuple and num_rhs = 1 the SIMD kernel stores to
\* every C[r, 0] the value spmv_small_rhs<1> with the identity functor stores
\* there, for matrices with padding and for M not a multiple of 8.
C16_SimdRefinesScalar ==
    (Returned /\ ColsInRange /\ kernel.name = "spmv_small_rhs_vect") =>
        \A r \in 0..(M - 1) :
            c[<<r, 0>>] = out_spmv(c_prev, r, 0,
                                   inner_loop(small_rhs_path(r), a.values, r, 0, 0, 0))

IsIdentity ==
    /\ K = 1 /\ M >= 1 /\ a.size1 = M
    /\ \A r \in 0..(M - 1) : a.col_idxs[r] = r /\ a.values[r] = 1

\* C17: with A the identity in ELL form (K = 1, col_idxs[r] = r,
\* values[r] = 1), for every M and num_rhs >= 1 and on every kernel, plain
\* spmv returns C = B and advanced_spmv returns alpha * B + beta * C_prev.
C17_Identity ==
    (Returned /\ IsIdentity) =>
        \A cell \in Cells :
            c[cell] = IF op = "spmv" THEN b.values[cell[1] * b.stride + cell[2]]
                      ELSE add(mul(alpha, b.values[cell[1] * b.stride + cell[2]]),
                               mul(beta, c_prev[cell]))

\* C18: a temporary_clone made for the executor its object already lives on
\* holds that object itself (get() and operator-> return ptr), creates no
\* clone, and at the end of its scope neither copies nor deletes anything.
C18_SameExecutorNoCopy ==
    (utility = "temporary_clone" /\ upc # "call" /\ ptr.executor = exec) =>
        /\ (upc = "held") => handle_ = [get |-> "ptr", deleter |-> "null_deleter"]
        /\ the_clone.created = 0
        /\ events = <<>>
        /\ ptr.copied_from = 0 /\ ptr.deleted = 0

C18_Witness ==
    /\ utility = "temporary_clone" /\ upc = "destroyed"
    /\ ptr.executor = exec /\ ~ptr.is_const /\ uses >= 1

\* C19: a temporary_clone made for another executor holds a clone created
\* on that executor; at the end of its scope the clone's data is copied back
\* into the original exactly once and the clone is deleted after that; for a
\* const object the clone is deleted and nothing is copied back.
C19_CopyBackThenDelete ==
    (utility = "temporary_clone" /\ upc # "call" /\ ptr.executor # exec) =>
        /\ the_clone.created = 1 /\ the_clone.executor = exec
        /\ (upc = "held") =>
              /\ handle_.get = "clone"
              /\ events = <<"clone">>
              /\ the_clone.deleted = 0 /\ ptr.copied_from = 0
        /\ (upc = "destroyed") =>
              /\ the_clone.deleted = 1
              /\ IF ptr.is_const
                 THEN events = <<"clone", "delete">> /\ ptr.copied_from = 0
                 ELSE /\ events = <<"clone", "copy_from", "delete">>
                      /\ ptr.copied_from = 1
                      /\ ptr.data = the_clone.data

C19_Witness ==
    /\ utility = "temporary_clone" /\ upc = "destroyed"
    /\ ptr.executor # exec /\ ~ptr.is_const /\ uses >= 1 /\ ptr.copied_from = 1

unit_slots(t) ==
    { <<row, i, j>> :
        row \in {r \in thr[t].first_row..(thr[t].first_row + thr[t].nrows - 1) : r < M},
        i \in 0..(K - 1),
        j \in thr[t].rhs_base..(thr[t].rhs_base + thr[t].width - 1) }

\* C21: on every kernel path, a slot with the valid column index col that
\* contributes to column j reads B at raw offset col * B_stride + j, for
\* every row stride of B (R = 1 with B_stride > 1 included).
C21_BStrideAddressing ==
    ColsInRange =>
        \A t \in Threads :
            (thr[t].path # "none") =>
                \A x \in unit_slots(t) :
                    LET col == a.col_idxs[x[1] + x[2] * stride]
                        ld == load_b(thr[t].path, col, x[3])
                    IN  (col # invalid_index) =>
                            (ld.issued /\ ld.off = col * b.stride + x[3])

\* C22: in spmv_small_rhs (V = 4) and spmv_small_rhs_vect (V = 8) the block
\* loop processes only rows of [0, V * floor(M / V)), the tail only rows of
\* [V * floor(M / V), M); when the call returns each of the two ranges has
\* been processed completely and every row exactly once; no row >= M is
\* ever processed.
C22_RowPartition ==
    (kernel.name \in {"spmv_small_rhs", "spmv_small_rhs_vect"}) =>
        LET last == vect_size(kernel) * (M \div vect_size(kernel))
        IN  /\ block_rows \subseteq 0..(last - 1)
            /\ tail_rows \subseteq last..(M - 1)
            /\ (pc = "done") =>
                  /\ block_rows = 0..(last - 1)
                  /\ tail_rows = last..(M - 1)
                  /\ \A cell \in Cells : writes[cell] = 1

\* The sum a path owes for (r, j) when every padding slot adds 0: over the
\* first n slots of row r, values * (the element of B the path addresses)
\* for the slots with a valid column, starting from 0.
RECURSIVE masked_path_sum(_, _, _, _, _)
masked_path_sum(path, vals, r, j, n) ==
    IF n = 0 THEN 0
    ELSE LET o == r + (n - 1) * stride
             col == a.col_idxs[o]
         IN  add(masked_path_sum(path, vals, r, j, n - 1),
                 IF col # invalid_index THEN mul(vals[o], b_raw(load_b(path, col, j).off))
                 ELSE 0)

\* the sums of the unit thread t holds are the masked sums of its rows, in
\* the run on a.values and in the run on valuesAlt
unit_is_masked(t) ==
    \A idx \in DOMAIN thr[t].partial_sum :
        LET row == thr[t].first_row + (idx \div thr[t].width)
            j == thr[t].rhs_base + (idx % thr[t].width)
        IN  (row < M) =>
                /\ thr[t].partial_sum[idx] = masked_path_sum(thr[t].path, a.values, row, j, K)
                /\ thr[t].partial_sumAlt[idx] = masked_path_sum(thr[t].path, valuesAlt, row, j, K)

\* C23: in the 8-row SIMD loop a lane whose column index is -1 issues no
\* load from B and its gathered value is 0: the slot adds exactly 0 to the
\* lane's partial sum.
C23_SimdBlockMasking ==
    /\ "vect_block" \notin invalid_reads
    /\ \A t \in Threads :
          (ColsInRange /\ thr[t].path = "vect_block") => unit_is_masked(t)

\* C24: the scalar tail of the SIMD kernel, which handles the M mod 8
\* residual rows, skips a slot with column index -1: it never reads B at
\* index -1 and the padding value does not enter C[row, 0].
C24_SimdTailMasking ==
    /\ "vect_tail" \notin invalid_reads
    /\ \A t \in Threads :
          (ColsInRange /\ thr[t].path = "vect_tail") => unit_is_masked(t)

\* C25: in spmv_blocked<4>, with rounded = floor(R / 4) * 4, a full-block
\* pass stores to 4 columns starting at a multiple of 4 below rounded, the
\* final pass stores to the columns [rounded, R) from accumulator slots
\* [0, R - rounded), at most 3 of them; when R is a multiple of 4 the final
\* pass stores nothing; every cell of a row is stored to once.
C25_BlockedRhsCoverage ==
    (kernel.name = "spmv_blocked") =>
        LET rounded == (num_rhs \div block_size) * block_size
        IN  /\ \A t \in Threads :
                  (thr[t].phase = "store") =>
                      /\ thr[t].path \in {"blocked_block", "blocked_tail"}
                      /\ (thr[t].path = "blocked_block") =>
                            /\ thr[t].width = block_size
                            /\ thr[t].rhs_base % block_size = 0
                            /\ thr[t].rhs_base + block_size <= rounded
                      /\ (thr[t].path = "blocked_tail") =>
                            /\ thr[t].rhs_base = rounded
                            /\ thr[t].width = num_rhs - rounded
                            /\ thr[t].width \in 1..(block_size - 1)
                      /\ DOMAIN thr[t].partial_sum = 0..(thr[t].width - 1)
                      /\ thr[t].wr < thr[t].width
            /\ \A cell \in Cells : writes[cell] <= 1
            /\ outside_stores = {}
            /\ (pc = "done") => \A cell \in Cells : writes[cell] = 1

C25_Witness ==
    /\ pc = "done" /\ kernel.name = "spmv_blocked" /\ M = 2 /\ K >= 1
    /\ num_rhs > block_size /\ num_rhs % block_size # 0
    /\ \A cell \in Cells : writes[cell] = 1

\* The sum of a path for (r, j) formed from zero over the first n slots of
\* row r alone, each slot contributing what the path's load yields.
RECURSIVE row_sum(_, _, _, _, _)
row_sum(path, vals, r, j, n) ==
    IF n = 0 THEN 0
    ELSE LET o == r + (n - 1) * stride
             ld == load_b(path, a.col_idxs[o], j)
         IN  IF ld.fma
             THEN add(row_sum(path, vals, r, j, n - 1),
                      mul(vals[o], IF ld.issued THEN b_raw(ld.off) ELSE 0))
             ELSE row_sum(path, vals, r, j, n - 1)

C27_InBoundsIndexing ==
    /\ \A t \in Threads :
          (thr[t].path # "none") =>
              \A row \in thr[t].first_row..(thr[t].first_row + thr[t].nrows - 1),
                 i \in 0..(K - 1) :
                  /\ 0 <= row + i * stride
                  /\ row + i * stride < stride * K
    /\ outside_stores = {}

\* C28: plain spmv does not read C: two runs on the same A and B that find
\* different numbers in C on entry return with the same C in every cell, on
\* every kernel.
C28_PlainOverwrites == (Returned /\ op = "spmv") => c = cOther

C28_Witness ==
    /\ Returned /\ op = "spmv" /\ K >= 1
    /\ block_rows # {} /\ tail_rows # {}
    /\ \A cell \in Cells : c_prev[cell] # C_prev_other(c_prev)[cell]

====
